---- MODULE Spec2Model ----
(***************************************************************************)
(* Conversation-slot state machine of the chatbot test center:             *)
(*   view.CreatePrompt        one slot: variant list, cursor, widgets      *)
(*   controller.ChatController the slot sequence, Submit, save/load        *)
(*   model.DataStorage        JSON files                                   *)
(*   model.LocalChatbot       the chat-completion call                     *)
(* Python indices are 0-based (txt_nummer, pos); TLA+ sequences are        *)
(* 1-based, so txt_lst[txt_nummer] of the source is txt_lst[txt_nummer+1]. *)
(***************************************************************************)
EXTENDS Integers, Sequences, FiniteSets, TLC

VARIABLES
    pc,            \* "boot" | "created" | "Idle" | "AwaitingReply" | "crashed"
                   \* ("restored": load_all_prompts was run a second time)
    view_objects,  \* ChatController.view_objects: sequence of CreatePrompt
    files,         \* Data/text_field<pos> for each position
    snapshot,      \* chat_memory.json (controller.FILE_NAME)
    sent,          \* the request handed to send_to_ollama by the last Submit
    nsent,         \* number of requests handed to send_to_ollama
    nevents,       \* number of user events handled so far
    obj,           \* position of the slot whose send button is being handled
    err,           \* exception that left the most recent handler, or "none"
    failed,        \* number of the write save_json failed at in it, or -1
    inserted,      \* the reply put last into an existing slot that the user
                   \* has not touched since: its position and text
    session,       \* which run of the program this is, and the positions of
                   \* the slots whose pairs are the request saved last
    scen           \* navigation scenario: steps done and the cursor it began at

vars == <<pc, view_objects, files, snapshot, sent, nsent, nevents, obj, err,
          failed, inserted, session, scen>>

-----------------------------------------------------------------------------
(* Bounds of the model *)

MaxSlots == 4
MaxEvents == 3
MaxLoaded == 3

-----------------------------------------------------------------------------
(* Values *)

Variant(r, c) == [role |-> r, content |-> c]

\* a file on disk: absent, a JSON document, or bytes that are not JSON
Absent == [kind |-> "absent", data |-> <<>>]
Malformed == [kind |-> "malformed", data |-> <<>>]
Json(d) == [kind |-> "json", data |-> d]

\* Python's None for an argument left out
None == "<None>"

\* truthiness of an optional string argument: None and "" are false
Truthy(x) == x # None /\ x # ""

Digits == <<"0", "1", "2", "3", "4", "5", "6", "7", "8", "9">>

RECURSIVE str(_)
str(n) == IF n < 10 THEN Digits[n + 1] ELSE str(n \div 10) \o Digits[(n % 10) + 1]

\* texts of the source
Neu == "Neu"
Def == "Def:"
ProblemRequest == "There was a problem connecting to the bot."
ProblemFormat == "Malformed response from the model."
ProblemOther == "There was a problem connecting to the bot. Error: e"
ErrorReplies == {ProblemRequest, ProblemFormat, ProblemOther}

\* a reply of the model (or of test mode)
Reply == "Test case: Response"

\* no reply is being followed
NoReply == [pos |-> -1, text |-> ""]

\* the first run of the program, nothing saved by it yet
FirstRun == [run |-> 1, origin |-> <<>>]

\* what the user types into a text widget
Typed == {"x"}

-----------------------------------------------------------------------------
(* view.CreatePrompt *)

\* update_prompt: each widget is written only when its argument is truthy
update_prompt(v, lbl_pos, lbl_role, txt_wdg) ==
    [v EXCEPT !.lbl_pos = IF Truthy(lbl_pos) THEN lbl_pos ELSE @,
              !.lbl_role = IF Truthy(lbl_role) THEN lbl_role ELSE @,
              !.txt_wdg = IF Truthy(txt_wdg) THEN txt_wdg ELSE @]

\* txt_lst[txt_nummer] exists (no KeyError on {} and no IndexError on a list)
HasCurrent(v) == v.txt_nummer < Len(v.txt_lst)

Current(v) == v.txt_lst[v.txt_nummer + 1]

\* update_prompt(lbl_pos=str(txt_nummer), lbl_role=..., txt_wdg=...) of the
\* current variant, as called by __init__ and the two navigation buttons
ShowCurrent(v) ==
    update_prompt(v, str(v.txt_nummer), Current(v).role, Current(v).content)

\* CreatePrompt.__init__
CreatePrompt(pos, txt_lst) ==
    ShowCurrent([pos |-> pos, txt_lst |-> txt_lst, txt_nummer |-> 0,
                 chk_btn_var |-> 1, txt_wdg |-> "",
                 lbl_pos |-> "0", lbl_role |-> "role = None"])

\* txt_lst[txt_nummer]["content"] = txt_wdg.get("1.0", "end-1c")
CommitText(v) == [v EXCEPT !.txt_lst[v.txt_nummer + 1].content = v.txt_wdg]

Raised(v, e) == [slot |-> v, err |-> e]
Returned(v) == [slot |-> v, err |-> "none"]

\* btn_back_click without the test for the first variant
btn_back_click_NoFloor(v) ==
    IF ~HasCurrent(v) THEN Raised(v, "KeyError")
    ELSE Returned([CommitText(v) EXCEPT !.txt_nummer = @ - 1])

\* btn_back_click
btn_back_click(v) ==
    LET moved == IF v.txt_nummer = 0 THEN v
                 ELSE [CommitText(v) EXCEPT !.txt_nummer = @ - 1]
    IN  IF v.txt_nummer # 0 /\ ~HasCurrent(v) THEN Raised(v, "KeyError")
        ELSE IF ~HasCurrent(moved) THEN Raised(moved, "KeyError")
        ELSE Returned(ShowCurrent(moved))

\* btn_forward_click that appends a new variant wherever the cursor is
btn_forward_click_AlwaysAppend(v) ==
    IF ~HasCurrent(v) THEN Raised(v, "KeyError")
    ELSE LET grown == [CommitText(v) EXCEPT !.txt_lst =
                          Append(@, Variant(Current(v).role, Neu))]
         IN  Returned(ShowCurrent([grown EXCEPT !.txt_nummer = @ + 1]))

\* btn_forward_click
btn_forward_click(v) ==
    IF ~HasCurrent(v) THEN Raised(v, "KeyError")
    ELSE LET kept == CommitText(v)
             grown == IF v.txt_nummer < Len(v.txt_lst) - 1 THEN kept
                      ELSE [kept EXCEPT !.txt_lst =
                               Append(@, Variant(Current(v).role, Neu))]
         IN  Returned(ShowCurrent([grown EXCEPT !.txt_nummer = @ + 1]))

\* chk_btn_var_show
chk_btn_var_show(v) == v.chk_btn_var

\* get_prompt (evaluated only when HasCurrent)
get_prompt(v) == Variant(Current(v).role, v.txt_wdg)

-----------------------------------------------------------------------------
(* model.DataStorage *)

\* load_json: {} for a file that does not exist, the document for a JSON
\* file, an exception otherwise. {} and [] both have length 0 and no item 0.
EmptyDict == <<>>

\* load_json as its docstring has it: an empty dictionary in case of error
load_json_Default(file) ==
    IF file.kind = "json" THEN [val |-> file.data, err |-> "none"]
    ELSE [val |-> EmptyDict, err |-> "none"]

load_json(file) ==
    IF file.kind = "absent" THEN [val |-> EmptyDict, err |-> "none"]
    ELSE IF file.kind = "json" THEN [val |-> file.data, err |-> "none"]
    ELSE [val |-> EmptyDict, err |-> "LoadError"]

\* save_json: the document replaces the file; a failed open leaves the file
\* as it was, a failed write leaves a truncated file that is not JSON
save_json(old, prompts, ok, left) ==
    IF ok THEN Json(prompts)
    ELSE IF left = "kept" THEN old ELSE Malformed

-----------------------------------------------------------------------------
(* model.LocalChatbot *)

\* send_to_ollama whose handlers return an empty text
send_to_ollama_Silent(outcome) ==
    IF outcome = "ok" THEN [val |-> Reply, err |-> "none"]
    ELSE [val |-> "", err |-> "none"]

\* send_to_ollama: the reply, or the text returned by its own handlers for
\* RequestException and KeyError; any other exception leaves the call
send_to_ollama(outcome) ==
    IF outcome = "ok" THEN [val |-> Reply, err |-> "none"]
    ELSE IF outcome = "RequestException" THEN [val |-> ProblemRequest, err |-> "none"]
    ELSE IF outcome = "KeyError" THEN [val |-> ProblemFormat, err |-> "none"]
    ELSE [val |-> "", err |-> "Exception"]

Outcomes == {"ok", "RequestException", "KeyError", "Exception"}

-----------------------------------------------------------------------------
(* controller.ChatController *)

\* convert_prompts: one single-variant list per snapshot entry
convert_prompts(json_data) ==
    [k \in 1..Len(json_data) |->
        <<Variant(json_data[k].role, json_data[k].content)>>]

\* create_view_objects that does not count the row up
create_view_objects_SameRow(vs, self_prompts, prompts, row) ==
    LET ps == IF prompts = <<>> THEN self_prompts ELSE prompts
    IN  vs \o [k \in 1..Len(ps) |-> CreatePrompt(row, ps[k])]

\* create_view_objects: self_prompts when prompts is None or empty
create_view_objects(vs, self_prompts, prompts, row) ==
    LET ps == IF prompts = <<>> THEN self_prompts ELSE prompts
    IN  vs \o [k \in 1..Len(ps) |-> CreatePrompt(row + k - 1, ps[k])]

\* the loop of load_all_prompts over enumerate(txt_lst), from index on
RECURSIVE FindCursor(_, _)
FindCursor(v, index) ==
    IF index >= Len(v.txt_lst) THEN Returned(v)
    ELSE IF ~HasCurrent(v) THEN Raised(v, "KeyError")
    ELSE FindCursor(IF v.txt_lst[index + 1] = get_prompt(v)
                    THEN [v EXCEPT !.txt_nummer = index] ELSE v,
                    index + 1)

\* load_all_prompts that extends the variant list by the loaded one
RECURSIVE load_all_prompts_Extend(_, _, _)
load_all_prompts_Extend(vs, fs, k) ==
    IF k > Len(vs) THEN [slots |-> vs, err |-> "none"]
    ELSE LET loaded == load_json(fs[vs[k].pos])
         IN  IF loaded.err # "none" THEN [slots |-> vs, err |-> loaded.err]
             ELSE LET found == FindCursor([vs[k] EXCEPT !.txt_lst = @ \o loaded.val], 0)
                      shown == update_prompt(found.slot, None, None, None)
                  IN  IF found.err # "none"
                      THEN [slots |-> [vs EXCEPT ![k] = found.slot], err |-> found.err]
                      ELSE load_all_prompts_Extend([vs EXCEPT ![k] = shown], fs, k + 1)

\* load_all_prompts, from the k-th view object on
RECURSIVE load_all_prompts(_, _, _)
load_all_prompts(vs, fs, k) ==
    IF k > Len(vs) THEN [slots |-> vs, err |-> "none"]
    ELSE LET loaded == load_json(fs[vs[k].pos])
         IN  IF loaded.err # "none" THEN [slots |-> vs, err |-> loaded.err]
             ELSE LET found == FindCursor([vs[k] EXCEPT !.txt_lst = loaded.val], 0)
                      shown == update_prompt(found.slot, None, None, None)
                  IN  IF found.err # "none"
                      THEN [slots |-> [vs EXCEPT ![k] = found.slot], err |-> found.err]
                      ELSE load_all_prompts([vs EXCEPT ![k] = shown], fs, k + 1)

\* the positions of the view objects that the request loop of
\* btn_send_callback takes a pair from
Requested(vs, objpos) ==
    LET taken == SelectSeq(vs, LAMBDA v : v.pos <= objpos /\ chk_btn_var_show(v) # 0)
    IN  [k \in 1..Len(taken) |-> taken[k].pos]

\* the request loop without the test of the checkbox
RECURSIVE BuildPrompt_IgnoreCheck(_, _, _, _)
BuildPrompt_IgnoreCheck(vs, objpos, k, prompt) ==
    IF k > Len(vs) THEN [val |-> prompt, err |-> "none"]
    ELSE IF vs[k].pos <= objpos
         THEN IF ~HasCurrent(vs[k]) THEN [val |-> prompt, err |-> "KeyError"]
              ELSE BuildPrompt_IgnoreCheck(vs, objpos, k + 1,
                                           Append(prompt, get_prompt(vs[k])))
         ELSE BuildPrompt_IgnoreCheck(vs, objpos, k + 1, prompt)

\* the request loop of btn_send_callback, from the k-th view object on
RECURSIVE BuildPrompt(_, _, _, _)
BuildPrompt(vs, objpos, k, prompt) ==
    IF k > Len(vs) THEN [val |-> prompt, err |-> "none"]
    ELSE IF vs[k].pos <= objpos /\ chk_btn_var_show(vs[k]) # 0
         THEN IF ~HasCurrent(vs[k]) THEN [val |-> prompt, err |-> "KeyError"]
              ELSE BuildPrompt(vs, objpos, k + 1, Append(prompt, get_prompt(vs[k])))
         ELSE BuildPrompt(vs, objpos, k + 1, prompt)

\* save_all_prompts that logs a failed write and goes on
RECURSIVE save_all_prompts_Swallow(_, _, _, _, _)
save_all_prompts_Swallow(vs, fs, k, fault, left) ==
    IF k > Len(vs)
    THEN [slots |-> vs, files |-> fs, err |-> "none",
          failed |-> IF fault < Len(vs) THEN fault ELSE -1]
    ELSE IF ~HasCurrent(vs[k])
    THEN [slots |-> vs, files |-> fs, err |-> "KeyError",
          failed |-> IF fault < k - 1 THEN fault ELSE -1]
    ELSE LET kept == [vs EXCEPT ![k] = CommitText(@)]
             saved == [fs EXCEPT ![vs[k].pos] =
                          save_json(@, kept[k].txt_lst, fault # k - 1, left)]
         IN  save_all_prompts_Swallow(kept, saved, k + 1, fault, left)

\* save_all_prompts that writes the variant lists as they are, without
\* taking the text of the widgets into them
RECURSIVE save_all_prompts_NoCommit(_, _, _, _, _)
save_all_prompts_NoCommit(vs, fs, k, fault, left) ==
    IF k > Len(vs) THEN [slots |-> vs, files |-> fs, err |-> "none", failed |-> -1]
    ELSE IF ~HasCurrent(vs[k])
    THEN [slots |-> vs, files |-> fs, err |-> "KeyError", failed |-> -1]
    ELSE LET saved == [fs EXCEPT ![vs[k].pos] =
                          save_json(@, vs[k].txt_lst, fault # k - 1, left)]
         IN  IF fault = k - 1
             THEN [slots |-> vs, files |-> saved, err |-> "StorageError",
                   failed |-> fault]
             ELSE save_all_prompts_NoCommit(vs, saved, k + 1, fault, left)

\* save_all_prompts, from the k-th view object on; fault is the number of the
\* write that fails if it is reached (0 for the first, -1 for none), failed
\* the number of the write that did fail
RECURSIVE save_all_prompts(_, _, _, _, _)
save_all_prompts(vs, fs, k, fault, left) ==
    IF k > Len(vs) THEN [slots |-> vs, files |-> fs, err |-> "none", failed |-> -1]
    ELSE IF ~HasCurrent(vs[k])
    THEN [slots |-> vs, files |-> fs, err |-> "KeyError", failed |-> -1]
    ELSE LET kept == [vs EXCEPT ![k] = CommitText(@)]
             number == vs[k].pos
             saved == [fs EXCEPT ![number] =
                          save_json(@, kept[k].txt_lst, fault # k - 1, left)]
         IN  IF fault = k - 1
             THEN [slots |-> kept, files |-> saved, err |-> "StorageError",
                   failed |-> fault]
             ELSE save_all_prompts(kept, saved, k + 1, fault, left)

\* the display of the response that creates no slot for the next input
InsertReply_OneSlot(vs, objpos, response_prompt) ==
    IF objpos < Len(vs) - 1
    THEN [vs EXCEPT ![objpos + 2] =
             update_prompt([@ EXCEPT !.txt_lst = Append(@, response_prompt),
                                     !.txt_nummer = @ + 1],
                           None, None, None)]
    ELSE vs \o <<CreatePrompt(Len(vs), <<response_prompt>>)>>

\* the display of the response that also returns the sending view object to
\* its first variant
InsertReply_Rewind(vs, objpos, response_prompt) ==
    LET back == [vs EXCEPT ![objpos + 1].txt_nummer = 0]
    IN  IF objpos < Len(vs) - 1
        THEN [back EXCEPT ![objpos + 2] =
                 update_prompt([@ EXCEPT !.txt_lst = Append(@, response_prompt),
                                         !.txt_nummer = @ + 1],
                               None, None, None)]
        ELSE create_view_objects(back, <<>>,
                                 <<<<response_prompt>>, <<Variant("user", Def)>>>>,
                                 Len(vs))

\* the display of the response in btn_send_callback
InsertReply(vs, objpos, response_prompt) ==
    IF objpos < Len(vs) - 1
    THEN [vs EXCEPT ![objpos + 2] =
             update_prompt([@ EXCEPT !.txt_lst = Append(@, response_prompt),
                                     !.txt_nummer = @ + 1],
                           None, None, None)]
    ELSE create_view_objects(vs, <<>>,
                             <<<<response_prompt>>, <<Variant("user", Def)>>>>,
                             Len(vs))

-----------------------------------------------------------------------------
(* The disk before the program starts *)

Seed0 == Variant("system", "Your name is Jana.")
Seed1 == Variant("user", "Hello")

Positions == 0..(MaxSlots - 1)

Disk(snap, fs) == [snapshot |-> snap, files |-> fs]

\* chat_memory.json and Data/text_field0, Data/text_field1 as an earlier
\* session, an editor or a crash may have left them
DiskImages ==
    { Disk(Absent, <<>>),
      Disk(Malformed, <<>>),
      Disk(Json(<<Seed0>>), <<Absent>>),
      Disk(Json(<<Seed0>>), <<Malformed>>),
      Disk(Json(<<Seed0>>), <<Json(<<Seed0>>)>>),
      Disk(Json(<<Seed0>>), <<Json(<<Variant("system", "x"), Seed0>>)>>),
      Disk(Json(<<Seed0, Seed1>>), <<Json(<<Seed0>>), Json(<<Seed1>>)>>),
      Disk(Json(<<Seed0, Seed1>>),
           <<Json(<<Seed0>>), Json(<<Seed1, Variant("assistant", Reply)>>)>>),
      Disk(Json(<<Seed0, Seed1>>),
           <<Json(<<Variant("system", "x"), Seed0>>),
             Json(<<Variant("assistant", Reply)>>)>>),
      Disk(Json(<<Seed0, Seed1>>), <<Json(<<Seed0>>), Absent>>),
      Disk(Json(<<Seed0, Seed1>>), <<Absent, Json(<<Seed1>>)>>),
      Disk(Json(<<Seed0, Seed1>>), <<Json(<<Seed0>>), Malformed>>),
      \* left by Submit(0), Submit(1) on the two seeds: the second request
      \* carried slot 1's text under the role of the reply variant
      Disk(Json(<<Seed0, Variant("assistant", "Hello")>>),
           <<Json(<<Seed0>>), Json(<<Seed1, Variant("assistant", "Hello")>>)>>) }

Init ==
    /\ pc = "boot"
    /\ view_objects = <<>>
    /\ \E d \in DiskImages :
          /\ snapshot = d.snapshot
          /\ files = [p \in Positions |->
                         IF p < Len(d.files) THEN d.files[p + 1] ELSE Absent]
    /\ sent = <<>>
    /\ nsent = 0
    /\ nevents = 0
    /\ obj = 0
    /\ err = "none"
    /\ failed = -1
    /\ inserted = NoReply
    /\ session = FirstRun
    /\ scen = [step |-> 0, start |-> 0]

-----------------------------------------------------------------------------
(* Startup: ChatController.__init__ *)

\* self.prompts = convert_prompts(load_json()); create_view_objects()
Create ==
    /\ pc = "boot"
    /\ LET loaded == load_json(snapshot)
       IN  IF loaded.err # "none"
           THEN /\ pc' = "crashed"
                /\ err' = loaded.err
                /\ UNCHANGED view_objects
           ELSE /\ pc' = "created"
                /\ err' = "none"
                /\ view_objects' =
                       create_view_objects(<<>>, convert_prompts(loaded.val), <<>>, 0)
    /\ UNCHANGED <<files, snapshot, sent, nsent, nevents, obj, failed, inserted, session,
                 scen>>

\* load_all_prompts(); an exception leaves __init__ and main
RestoreAll ==
    /\ pc = "created"
    /\ LET r == load_all_prompts(view_objects, files, 1)
       IN  /\ view_objects' = r.slots
           /\ err' = r.err
           /\ pc' = IF r.err = "none" THEN "Idle" ELSE "crashed"
    /\ UNCHANGED <<files, snapshot, sent, nsent, nevents, obj, failed, inserted, session,
                 scen>>

-----------------------------------------------------------------------------
(* Events of the main loop *)

Slots == 1..Len(view_objects)

\* the user's hand on the i-th view object ends the following of its reply
Touched(i) == IF view_objects[i].pos = inserted.pos THEN NoReply ELSE inserted

\* button "Zurueck"
Back(i) ==
    /\ pc = "Idle"
    /\ nevents < MaxEvents
    /\ LET r == btn_back_click(view_objects[i])
       IN  /\ view_objects' = [view_objects EXCEPT ![i] = r.slot]
           /\ err' = r.err
    /\ nevents' = nevents + 1
    /\ failed' = -1
    /\ inserted' = Touched(i)
    /\ UNCHANGED <<pc, files, snapshot, sent, nsent, obj, session, scen>>

\* button "Vor"
Forward(i) ==
    /\ pc = "Idle"
    /\ nevents < MaxEvents
    /\ LET r == btn_forward_click(view_objects[i])
       IN  /\ view_objects' = [view_objects EXCEPT ![i] = r.slot]
           /\ err' = r.err
    /\ nevents' = nevents + 1
    /\ failed' = -1
    /\ inserted' = Touched(i)
    /\ UNCHANGED <<pc, files, snapshot, sent, nsent, obj, session, scen>>

\* the user types into the text widget
Type(i, t) ==
    /\ pc = "Idle"
    /\ nevents < MaxEvents
    /\ view_objects' = [view_objects EXCEPT ![i].txt_wdg = t]
    /\ err' = "none"
    /\ nevents' = nevents + 1
    /\ failed' = -1
    /\ inserted' = Touched(i)
    /\ UNCHANGED <<pc, files, snapshot, sent, nsent, obj, session, scen>>

\* button "Loeschen": txt_wdg.delete("1.0", "end")
Delete(i) ==
    /\ pc = "Idle"
    /\ nevents < MaxEvents
    /\ view_objects' = [view_objects EXCEPT ![i].txt_wdg = ""]
    /\ err' = "none"
    /\ nevents' = nevents + 1
    /\ failed' = -1
    /\ inserted' = Touched(i)
    /\ UNCHANGED <<pc, files, snapshot, sent, nsent, obj, session, scen>>

\* checkbox "Aktivieren"
Toggle(i) ==
    /\ pc = "Idle"
    /\ nevents < MaxEvents
    /\ view_objects' = [view_objects EXCEPT ![i].chk_btn_var = 1 - @]
    /\ err' = "none"
    /\ nevents' = nevents + 1
    /\ failed' = -1
    /\ UNCHANGED inserted
    /\ UNCHANGED <<pc, files, snapshot, sent, nsent, obj, session, scen>>

\* button "Absenden", up to the call of send_to_ollama: build the request,
\* save_all_prompts, save the request
SubmitBegin(i, fault, left) ==
    /\ pc = "Idle"
    /\ nevents < MaxEvents
    /\ i = Len(view_objects) => Len(view_objects) + 2 <= MaxSlots
    /\ nevents' = nevents + 1
    /\ LET objpos == view_objects[i].pos
           built == BuildPrompt(view_objects, objpos, 1, <<>>)
           saved == save_all_prompts(view_objects, files, 1, fault, left)
           snapOk == fault # Len(view_objects)
       IN  /\ obj' = objpos
           /\ IF built.err # "none"
              THEN /\ err' = built.err
                   /\ failed' = -1
                   /\ session' = [session EXCEPT !.origin = <<>>]
                   /\ UNCHANGED <<pc, view_objects, files, snapshot, sent, nsent>>
              ELSE IF saved.err # "none"
              THEN /\ err' = saved.err
                   /\ failed' = saved.failed
                   /\ session' = [session EXCEPT !.origin = <<>>]
                   /\ view_objects' = saved.slots
                   /\ files' = saved.files
                   /\ UNCHANGED <<pc, snapshot, sent, nsent>>
              ELSE /\ view_objects' = saved.slots
                   /\ files' = saved.files
                   /\ snapshot' = save_json(snapshot, built.val, snapOk, left)
                   /\ IF snapOk
                      THEN /\ pc' = "AwaitingReply"
                           /\ sent' = built.val
                           /\ nsent' = nsent + 1
                           /\ err' = "none"
                           /\ failed' = saved.failed
                           /\ session' = [session EXCEPT !.origin =
                                              Requested(view_objects, objpos)]
                      ELSE /\ err' = "StorageError"
                           /\ failed' = fault
                           /\ session' = [session EXCEPT !.origin = <<>>]
                           /\ UNCHANGED <<pc, sent, nsent>>
    /\ UNCHANGED <<scen, inserted>>

\* button "Absenden", from the return of send_to_ollama on
SubmitEnd(outcome) ==
    /\ pc = "AwaitingReply"
    /\ LET answer == send_to_ollama(outcome)
           response_text == IF answer.err = "none" THEN answer.val ELSE ProblemOther
           response_prompt == Variant("assistant", response_text)
       IN  /\ view_objects' = InsertReply(view_objects, obj, response_prompt)
           /\ inserted' = IF obj < Len(view_objects) - 1
                          THEN [pos |-> obj + 1, text |-> response_text]
                          ELSE inserted
    /\ pc' = "Idle"
    /\ err' = "none"
    /\ UNCHANGED <<files, snapshot, sent, nsent, nevents, obj, failed, session, scen>>

Faults == -1..MaxSlots

Next ==
    \/ Create
    \/ RestoreAll
    \/ \E i \in Slots : Back(i)
    \/ \E i \in Slots : Forward(i)
    \/ \E i \in Slots, t \in Typed : Type(i, t)
    \/ \E i \in Slots : Delete(i)
    \/ \E i \in Slots : Toggle(i)
    \/ \E i \in Slots, fault \in Faults, left \in {"kept", "truncated"} :
          fault <= Len(view_objects) /\ SubmitBegin(i, fault, left)
    \/ \E outcome \in Outcomes : SubmitEnd(outcome)

Spec == Init /\ [][Next]_vars

-----------------------------------------------------------------------------
(* Navigation scenario: forward, forward, back, forward on one slot that    *)
(* holds exactly two variants                                               *)

TwoVariantSlots ==
    { [pos |-> 0, txt_lst |-> <<Variant(r, c), second>>, txt_nummer |-> n,
       chk_btn_var |-> chk, txt_wdg |-> w,
       lbl_pos |-> str(n), lbl_role |-> IF n = 0 THEN r ELSE second.role] :
        r \in {"system", "user"}, c \in {"Hello", ""},
        second \in {Variant("system", Neu), Variant("user", Neu),
                    Variant("assistant", Reply)},
        n \in {0, 1}, chk \in {0, 1}, w \in {"Hello", Neu, Reply, "x", ""} }

InitD ==
    /\ pc = "Idle"
    /\ \E v \in TwoVariantSlots :
          /\ view_objects = <<v>>
          /\ scen = [step |-> 0, start |-> v.txt_nummer]
    /\ snapshot = Absent
    /\ files = [p \in Positions |-> Absent]
    /\ sent = <<>>
    /\ nsent = 0
    /\ nevents = 0
    /\ obj = 0
    /\ err = "none"
    /\ failed = -1
    /\ inserted = NoReply
    /\ session = FirstRun

ScenForward ==
    /\ scen.step \in {0, 1, 3}
    /\ LET r == btn_forward_click(view_objects[1])
       IN  /\ view_objects' = [view_objects EXCEPT ![1] = r.slot]
           /\ err' = r.err
    /\ scen' = [scen EXCEPT !.step = @ + 1]
    /\ UNCHANGED <<pc, files, snapshot, sent, nsent, nevents, obj, failed, inserted,
                 session>>

ScenBack ==
    /\ scen.step = 2
    /\ LET r == btn_back_click(view_objects[1])
       IN  /\ view_objects' = [view_objects EXCEPT ![1] = r.slot]
           /\ err' = r.err
    /\ scen' = [scen EXCEPT !.step = @ + 1]
    /\ UNCHANGED <<pc, files, snapshot, sent, nsent, nevents, obj, failed, inserted,
                 session>>

NextD == ScenForward \/ ScenBack

SpecD == InitD /\ [][NextD]_vars

-----------------------------------------------------------------------------
(* A second run of the program on the files the first run left: the window *)
(* is closed after a Submit that was saved and answered, and main starts   *)
(* again. No write fails in this specification.                            *)

Restart ==
    /\ pc = "Idle"
    /\ session.run = 1
    /\ session.origin # <<>>
    /\ pc' = "boot"
    /\ view_objects' = <<>>
    /\ obj' = 0
    /\ err' = "none"
    /\ failed' = -1
    /\ inserted' = NoReply
    /\ session' = [session EXCEPT !.run = 2]
    /\ UNCHANGED <<files, snapshot, sent, nsent, nevents, scen>>

NextS ==
    \/ Create
    \/ RestoreAll
    \/ \E i \in Slots : Back(i)
    \/ \E i \in Slots : Forward(i)
    \/ \E i \in Slots, t \in Typed : Type(i, t)
    \/ \E i \in Slots : Delete(i)
    \/ \E i \in Slots : Toggle(i)
    \/ \E i \in Slots : SubmitBegin(i, -1, "kept")
    \/ \E outcome \in Outcomes : SubmitEnd(outcome)
    \/ Restart

SpecS == Init /\ [][NextS]_vars

-----------------------------------------------------------------------------
(* load_all_prompts run twice on one slot: every seed against every list   *)
(* of at most MaxLoaded variants that Data/text_field0 may hold            *)

RestoreVariants ==
    {Variant(r, c) : r \in {"user", "assistant"}, c \in {"Hello", ""}}

RestoreFiles ==
    {Absent, Malformed} \cup
    {Json(l) : l \in UNION {[1..n -> RestoreVariants] : n \in 0..MaxLoaded}}

InitR ==
    /\ pc = "created"
    /\ \E seed \in RestoreVariants, f \in RestoreFiles :
          /\ view_objects = create_view_objects(<<>>, <<<<seed>>>>, <<>>, 0)
          /\ snapshot = Json(<<seed>>)
          /\ files = [p \in Positions |-> IF p = 0 THEN f ELSE Absent]
    /\ sent = <<>>
    /\ nsent = 0
    /\ nevents = 0
    /\ obj = 0
    /\ err = "none"
    /\ failed = -1
    /\ inserted = NoReply
    /\ session = FirstRun
    /\ scen = [step |-> 0, start |-> 0]

\* load_all_prompts() once more, directly after the one of __init__
RestoreAgain ==
    /\ pc = "Idle"
    /\ LET r == load_all_prompts(view_objects, files, 1)
       IN  /\ view_objects' = r.slots
           /\ err' = r.err
           /\ pc' = IF r.err = "none" THEN "restored" ELSE "crashed"
    /\ UNCHANGED <<files, snapshot, sent, nsent, nevents, obj, failed, inserted, session,
                 scen>>

NextR == RestoreAll \/ RestoreAgain

SpecR == InitR /\ [][NextR]_vars

-----------------------------------------------------------------------------
(* Properties *)

\* the variant list is not empty and the cursor is an index of it
WellFormed(v) ==
    Len(v.txt_lst) >= 1 /\ 0 <= v.txt_nummer /\ v.txt_nummer < Len(v.txt_lst)

Replies == {Reply} \cup ErrorReplies

\* C1: every slot is created with at least one variant and a cursor inside
\* the list, and every step of the main loop (back, forward, typing, Submit
\* and its reply insertion) keeps that and never shortens a variant list or
\* removes a slot
C1_VariantsNeverEmpty ==
    [][ /\ pc' = "created" =>
             \A i \in 1..Len(view_objects') : WellFormed(view_objects'[i])
        /\ pc \in {"Idle", "AwaitingReply"} =>
             /\ Len(view_objects') >= Len(view_objects)
             /\ \A i \in 1..Len(view_objects') :
                   IF i <= Len(view_objects)
                   THEN WellFormed(view_objects[i]) =>
                           /\ WellFormed(view_objects'[i])
                           /\ Len(view_objects'[i].txt_lst) >=
                                  Len(view_objects[i].txt_lst)
                   ELSE WellFormed(view_objects'[i]) ]_vars

\* a slot that was advanced, retreated and then given a reply by Submit
C1_Witness ==
    /\ pc = "Idle"
    /\ \E i \in Slots :
          /\ Len(view_objects[i].txt_lst) = 3
          /\ view_objects[i].txt_lst[2].content = Neu
          /\ view_objects[i].txt_lst[3].role = "assistant"
          /\ view_objects[i].txt_nummer = 1

\* C2: load_all_prompts leaves a slot whose per-slot file does not exist as
\* it was created: the seed variant, cursor 0, the seed displayed
C2_AbsentFileKeepsSeed ==
    [][ (pc = "created" /\ pc' # "created") =>
            \A i \in Slots :
                files[view_objects[i].pos] = Absent =>
                    /\ i <= Len(view_objects')
                    /\ view_objects'[i] = view_objects[i] ]_vars

\* C3: the reply insertion of Submit on a slot that is not the last keeps the
\* number of slots, appends the reply to the next slot's variants, keeps the
\* earlier ones, and leaves that slot's cursor on the reply
C3_ReplyIsCurrent ==
    [][ (pc = "AwaitingReply" /\ obj < Len(view_objects) - 1) =>
            /\ Len(view_objects') = Len(view_objects)
            /\ LET old == view_objects[obj + 2]
                   new == view_objects'[obj + 2]
               IN  /\ Len(new.txt_lst) = Len(old.txt_lst) + 1
                   /\ SubSeq(new.txt_lst, 1, Len(old.txt_lst)) = old.txt_lst
                   /\ new.txt_lst[Len(new.txt_lst)].role = "assistant"
                   /\ new.txt_lst[Len(new.txt_lst)].content \in Replies
                   /\ new.txt_nummer = Len(new.txt_lst) - 1 ]_vars

\* C4: Submit on the last slot leaves every existing slot where and as it is
\* while the request is out, and its reply insertion appends two slots at
\* positions n and n+1: one with the single variant (assistant, reply), one
\* with the single variant (user, "Def:")
C4_TwoNewSlots ==
    [][ /\ (pc = "Idle" /\ pc' = "AwaitingReply") =>
             /\ Len(view_objects') = Len(view_objects)
             /\ \A i \in Slots : view_objects'[i].pos = view_objects[i].pos
        /\ (pc = "AwaitingReply" /\ obj >= Len(view_objects) - 1) =>
             LET n == Len(view_objects)
             IN  /\ Len(view_objects') = n + 2
                 /\ \A i \in 1..n : view_objects'[i] = view_objects[i]
                 /\ view_objects'[n + 1].pos = n
                 /\ view_objects'[n + 2].pos = n + 1
                 /\ \E r \in Replies :
                       view_objects'[n + 1].txt_lst = <<Variant("assistant", r)>>
                 /\ view_objects'[n + 2].txt_lst = <<Variant("user", Def)>>
                 /\ view_objects'[n + 1].txt_nummer = 0
                 /\ view_objects'[n + 2].txt_nummer = 0 ]_vars

\* one system seed slot, Submit(0): three slots
C4_Witness ==
    /\ pc = "Idle"
    /\ nsent = 1
    /\ Len(view_objects) = 3
    /\ view_objects[1].txt_lst[1].role = "system"
    /\ view_objects[2].txt_lst = <<Variant("assistant", Reply)>>
    /\ view_objects[3].txt_lst = <<Variant("user", Def)>>

\* the slots whose pair belongs in the request of Submit(p)
ActiveUpTo(p) ==
    {i \in Slots : view_objects[i].pos <= p /\ view_objects[i].chk_btn_var = 1}

\* C5: the request handed to the chat collaborator holds, in position order,
\* one pair (role and text of the current variant) for each active slot at or
\* before the submitted position, and nothing else
C5_RequestIsActivePrefix ==
    pc = "AwaitingReply" =>
        /\ Len(sent) = Cardinality(ActiveUpTo(obj))
        /\ \A i \in ActiveUpTo(obj) :
              sent[Cardinality({j \in ActiveUpTo(obj) : j <= i})] =
                  Variant(Current(view_objects[i]).role,
                          Current(view_objects[i]).content)

\* slot 0 deactivated, slot 1 active, Submit(1): only slot 1's pair is sent
C5_Witness ==
    /\ pc = "AwaitingReply"
    /\ obj = 1
    /\ view_objects[1].chk_btn_var = 0
    /\ view_objects[2].chk_btn_var = 1
    /\ sent = <<Variant("user", "Hello")>>

\* C6: forward with the cursor on the last variant appends one variant (the
\* role of the variant left, content "Neu") and moves the cursor to it;
\* forward with the cursor elsewhere moves the cursor by one and leaves the
\* number of variants unchanged
C6_ForwardAppendsOrMoves ==
    [][ \A i \in Slots :
          Forward(i) =>
             LET old == view_objects[i]
                 new == view_objects'[i]
                 n == Len(old.txt_lst)
             IN  IF old.txt_nummer = n - 1
                 THEN /\ Len(new.txt_lst) = n + 1
                      /\ new.txt_lst[n + 1] = Variant(old.txt_lst[n].role, Neu)
                      /\ new.txt_nummer = n
                 ELSE /\ Len(new.txt_lst) = n
                      /\ new.txt_nummer = old.txt_nummer + 1 ]_vars

\* C7 as stated: the scenario on a slot with two variants ends with the
\* cursor on 1 and still two variants
C7_EndsAtSecondVariant ==
    scen.step = 4 =>
        /\ view_objects[1].txt_nummer = 1
        /\ Len(view_objects[1].txt_lst) = 2

\* C7 amended: started with the cursor on c, the scenario has c + 3 variants
\* from its second forward on (the forwards at the end of the list create
\* c + 1 variants), and the last forward returns the cursor to c + 2 without
\* creating a variant
C7_EndsAtStartPlusTwo ==
    /\ scen.step \in {2, 4} =>
          /\ view_objects[1].txt_nummer = scen.start + 2
          /\ Len(view_objects[1].txt_lst) = scen.start + 3
    /\ scen.step = 3 =>
          /\ view_objects[1].txt_nummer = scen.start + 1
          /\ Len(view_objects[1].txt_lst) = scen.start + 3

\* the scenario run to its end from cursor 0: cursor 2, three variants
C7_Witness ==
    /\ scen.step = 4
    /\ scen.start = 0
    /\ view_objects[1].txt_nummer = 2
    /\ Len(view_objects[1].txt_lst) = 3

\* C8: back with the cursor on 0 raises nothing and leaves the cursor and the
\* variant list as they are
C8_BackAtStartIsNoOp ==
    [][ \A i \in Slots :
          (Back(i) /\ view_objects[i].txt_nummer = 0) =>
             /\ err' = "none"
             /\ view_objects'[i].txt_nummer = 0
             /\ view_objects'[i].txt_lst = view_objects[i].txt_lst ]_vars

\* the call of send_to_ollama returns or raises
SpecLive == Spec /\ WF_vars(\E outcome \in Outcomes : SubmitEnd(outcome))

\* the slot after the submitted one ends with an assistant variant
ReplyFilled ==
    /\ obj + 2 <= Len(view_objects)
    /\ LET next == view_objects[obj + 2]
       IN  /\ Len(next.txt_lst) >= 1
           /\ next.txt_lst[Len(next.txt_lst)].role = "assistant"
           /\ next.txt_lst[Len(next.txt_lst)].content \in Replies

\* C9: a failure of the chat collaborator leaves Submit without an exception,
\* back in Idle, with an assistant variant holding an error text inserted
\* where a reply goes (appended to the next slot, or as the first of two new
\* slots after the last slot); and every request that was handed to the
\* collaborator is followed by Idle with the reply slot filled
C9_FailureBecomesReply ==
    /\ [][ \A outcome \in Outcomes \ {"ok"} :
             SubmitEnd(outcome) =>
                /\ pc' = "Idle"
                /\ err' = "none"
                /\ \E e \in ErrorReplies :
                      LET n == Len(view_objects)
                      IN  IF obj < n - 1
                          THEN /\ Len(view_objects') = n
                               /\ view_objects'[obj + 2].txt_lst =
                                     Append(view_objects[obj + 2].txt_lst,
                                            Variant("assistant", e))
                          ELSE /\ Len(view_objects') = n + 2
                               /\ view_objects'[n + 1].txt_lst =
                                     <<Variant("assistant", e)>>
                               /\ view_objects'[n + 2].txt_lst =
                                     <<Variant("user", Def)>> ]_vars
    /\ (pc = "AwaitingReply") ~> (pc = "Idle" /\ ReplyFilled)

\* an error text was inserted into an existing slot behind an older variant
C9_Witness ==
    /\ pc = "Idle"
    /\ err = "none"
    /\ \E i \in Slots :
          /\ Len(view_objects[i].txt_lst) >= 2
          /\ view_objects[i].txt_lst[Len(view_objects[i].txt_lst)] =
                 Variant("assistant", ProblemOther)

\* C10: a Submit one of whose writes fails ends with the storage error: no
\* request is handed to the chat collaborator, no variant and no slot is
\* added
C10_StorageErrorAborts ==
    [][ (pc = "Idle" /\ failed' # -1) =>
             /\ err' = "StorageError"
             /\ pc' = "Idle"
             /\ sent' = sent
             /\ nsent' = nsent
             /\ Len(view_objects') = Len(view_objects)
             /\ \A k \in Slots :
                   Len(view_objects'[k].txt_lst) = Len(view_objects[k].txt_lst) ]_vars

\* a Submit that was aborted by the write of the request snapshot, after all
\* per-slot files were written
C10_Witness ==
    /\ pc = "Idle"
    /\ err = "StorageError"
    /\ failed = Len(view_objects)
    /\ nsent = 0
    /\ Len(view_objects) >= 1
    /\ \A i \in Slots : files[view_objects[i].pos] = Json(view_objects[i].txt_lst)
    /\ snapshot # Json(<<>>)

\* C11: load_all_prompts on a slot whose per-slot file cannot be read or
\* decoded still ends startup in the main loop, and leaves that slot as it
\* was created
C11_RestoreSurvivesBadFile ==
    [][ (pc = "created" /\ pc' # "created") =>
            /\ pc' = "Idle"
            /\ \A i \in Slots :
                  files[view_objects[i].pos] = Malformed =>
                      /\ i <= Len(view_objects')
                      /\ view_objects'[i] = view_objects[i] ]_vars

\* C12: load_all_prompts that ends startup normally gives every slot whose
\* per-slot file holds a non-empty list that list, with the cursor on a
\* loaded variant equal to the variant the slot was created with when there
\* is one, and on 0 when there is none
C12_RestoreFindsSeed ==
    [][ (pc = "created" /\ pc' = "Idle") =>
            \A i \in Slots :
                LET file == files[view_objects[i].pos]
                    seed == Current(view_objects[i])
                    new == view_objects'[i]
                IN  (file.kind = "json" /\ file.data # <<>>) =>
                        /\ new.txt_lst = file.data
                        /\ IF \E n \in 1..Len(file.data) : file.data[n] = seed
                           THEN /\ new.txt_nummer < Len(file.data)
                                /\ file.data[new.txt_nummer + 1] = seed
                           ELSE new.txt_nummer = 0 ]_vars

\* C13: load_all_prompts run a second time directly after the first, on the
\* same files, ends normally and leaves every slot's variant list and cursor
\* as the first run left them
C13_RestoreIdempotent ==
    [][ RestoreAgain =>
            /\ pc' = "restored"
            /\ Len(view_objects') = Len(view_objects)
            /\ \A i \in Slots :
                  /\ view_objects'[i].txt_lst = view_objects[i].txt_lst
                  /\ view_objects'[i].txt_nummer = view_objects[i].txt_nummer ]_vars

\* the second run ended on a slot whose first run had moved the cursor to the
\* last of three loaded variants
C13_Witness ==
    /\ pc = "restored"
    /\ Len(view_objects[1].txt_lst) = 3
    /\ view_objects[1].txt_nummer = 2
    /\ files[0] = Json(view_objects[1].txt_lst)

\* C14: once a request was handed to the chat collaborator, chat_memory.json
\* holds the request handed over most recently; in particular it holds the
\* request while the collaborator is working on it
C14_SnapshotIsLastRequest ==
    /\ pc = "AwaitingReply" => snapshot = Json(sent)
    /\ nsent >= 1 => snapshot = Json(sent)

C16_AllSlotsSavedBeforeDispatch ==
    pc = "AwaitingReply" =>
        \A i \in Slots :
            /\ HasCurrent(view_objects[i])
            /\ Current(view_objects[i]).content = view_objects[i].txt_wdg
            /\ files[view_objects[i].pos] = Json(view_objects[i].txt_lst)

\* Submit(0) dispatched while slot 1, behind the submitted slot and
\* deactivated, held typed text that was not in its variant before
C16_Witness ==
    /\ pc = "AwaitingReply"
    /\ obj = 0
    /\ Len(view_objects) = 2
    /\ view_objects[2].chk_btn_var = 0
    /\ view_objects[2].txt_wdg = "x"
    /\ files[1] = Json(<<Variant("user", "x")>>)

\* C17: after back and after forward on a slot that has a current variant,
\* the role label, the index label and the text widget of the slot show the
\* role of the current variant, the cursor, and the content of the current
\* variant, whatever that content is
C17_DisplayFollowsCursor ==
    [][ \A i \in Slots :
          ((Back(i) \/ Forward(i)) /\ WellFormed(view_objects[i])) =>
             LET new == view_objects'[i]
             IN  /\ WellFormed(new)
                 /\ new.lbl_role = Current(new).role
                 /\ new.lbl_pos = str(new.txt_nummer)
                 /\ new.txt_wdg = Current(new).content ]_vars

\* C18: the view object at index i of view_objects has position i (0-based),
\* so the positions are 0..n-1 without gap or duplicate; no step removes a
\* view object or changes the position of one, and a new view object is
\* appended behind the existing ones
C18_PositionsAreIndices ==
    /\ [](\A i \in Slots : view_objects[i].pos = i - 1)
    /\ [][ /\ Len(view_objects') >= Len(view_objects)
           /\ \A i \in Slots : view_objects'[i].pos = view_objects[i].pos ]_vars

\* Submit on the last of two slots appended the slots at positions 2 and 3
C18_Witness ==
    /\ pc = "Idle"
    /\ nsent = 1
    /\ obj = 1
    /\ Len(view_objects) = 4
    /\ view_objects[3].pos = 2
    /\ view_objects[4].pos = 3

\* C19 as stated: in the main loop the cursor of a slot changes only in a
\* step that is back or forward on that slot
C19_CursorOnlyByNavigation ==
    [][ (pc = "Idle" \/ pc = "AwaitingReply") =>
            \A i \in Slots :
                view_objects'[i].txt_nummer # view_objects[i].txt_nummer =>
                    \/ Back(i)
                    \/ Forward(i) ]_vars

\* C19 amended: in the main loop the cursor of a slot changes only in a step
\* that is back or forward on that slot, or the reply insertion of a Submit
\* on the slot directly before it, which moves it forward; the request and
\* save phase of Submit, the checkbox, typing, deleting and navigation on
\* another slot leave it as it is
C19_CursorByNavigationOrReply ==
    [][ (pc = "Idle" \/ pc = "AwaitingReply") =>
            \A i \in Slots :
                view_objects'[i].txt_nummer # view_objects[i].txt_nummer =>
                    \/ Back(i)
                    \/ Forward(i)
                    \/ /\ pc = "AwaitingReply"
                       /\ i = obj + 2
                       /\ view_objects'[i].txt_nummer > view_objects[i].txt_nummer ]_vars

\* Submit(0) on two slots was answered: the cursor of slot 1 moved to 1 while
\* the cursor of slot 0, moved by forward before, stayed
C19_Witness ==
    /\ pc = "Idle"
    /\ nsent = 1
    /\ obj = 0
    /\ Len(view_objects) = 2
    /\ view_objects[1].txt_nummer = 1
    /\ view_objects[2].txt_nummer = 1
    /\ Len(view_objects[2].txt_lst) = 2
    /\ view_objects[2].txt_lst[2].role = "assistant"

\* C20: the reply that Submit puts into an existing slot is what that slot
\* displays right after; and as long as the user does not touch the slot, the
\* reply variant keeps the reply text as its content in memory, and in the
\* slot's file once a later Submit has written the variant there
C20_ReplyNotLost ==
    /\ [][ (pc = "AwaitingReply" /\ obj < Len(view_objects) - 1) =>
               view_objects'[obj + 2].txt_wdg = inserted'.text ]_vars
    /\ [](inserted.pos >= 0 =>
             LET v == view_objects[inserted.pos + 1]
                 n == Len(v.txt_lst)
                 file == files[inserted.pos]
             IN  /\ v.txt_lst[n] = Variant("assistant", inserted.text)
                 /\ (file.kind = "json" /\ Len(file.data) >= n) =>
                        file.data[n] = Variant("assistant", inserted.text))

\* C21: back and forward on a slot, wherever its cursor is, leave the text
\* that the widget showed before either in the widget or as the content of
\* the variant that was current before
C21_NavigationKeepsLiveText ==
    [][ \A i \in Slots :
          (Back(i) \/ Forward(i)) =>
             LET old == view_objects[i]
                 new == view_objects'[i]
             IN  \/ new.txt_wdg = old.txt_wdg
                 \/ /\ old.txt_nummer < Len(new.txt_lst)
                    /\ new.txt_lst[old.txt_nummer + 1].content = old.txt_wdg ]_vars

\* C22: load_all_prompts of a second run, started on the files that a saved
\* and answered Submit of the first run left, ends startup normally with one
\* slot per entry of the snapshot; each slot holds the variant list that the
\* first run saved for the slot the entry was taken from, and has a current
\* variant equal to the entry
C22_RestartRestoresSession ==
    [][ (session.run = 2 /\ pc = "created" /\ pc' # "created") =>
            /\ pc' = "Idle"
            /\ Len(view_objects') = Len(session.origin)
            /\ \A k \in 1..Len(session.origin) :
                  LET new == view_objects'[k]
                      file == files[session.origin[k]]
                  IN  /\ file.kind = "json"
                      /\ new.txt_lst = file.data
                      /\ HasCurrent(new)
                      /\ Current(new) = snapshot.data[k] ]_vars

====
